---- MODULE Spec2Model ----
(***************************************************************************)
(* Model of src/inventory_system.py: a module-global ordered mapping       *)
(* stock_data (item name -> float quantity) with add_item, remove_item,    *)
(* get_qty, save_data, load_data, print_data, check_low_items and main.    *)
(*                                                                         *)
(* Python values are records [t, n, s]: t is the Python type, n the        *)
(* numeric value (floats are modelled on the integer grid, where float     *)
(* addition, subtraction and float(int) are exact), s the characters of a  *)
(* str.  A str is a sequence of one-character strings so that str.strip()  *)
(* can be computed.  A dict is a sequence of [k, v] entries in insertion   *)
(* order, as CPython keeps it.  NaN, the infinities and integers too large *)
(* for a float to hold exactly are not among the values.                   *)
(*                                                                         *)
(* Spec explores the functions under every kind of argument, reading and   *)
(* writing files other than inventory.json; SpecFiles follows inventory.json *)
(* through save_data() and load_data() with valid arguments.  Both run     *)
(* main() from an empty inventory.                                         *)
(***************************************************************************)
EXTENDS Integers, Sequences, FiniteSets, TLC

\* ------------------------------------------------------------------ bounds

\* The caller's calls are explored while no stored quantity exceeds MaxQty.
MaxQty == 2

\* External JSON files hold objects of at most MaxMembers members.
MaxMembers == 2

\* Default of check_low_items' threshold parameter.
DefaultThreshold == 5

\* ---------------------------------------------------------- Python values

PyInt(n) == [t |-> "int", n |-> n, s |-> <<>>]

PyFloat(n) == [t |-> "float", n |-> n, s |-> <<>>]

PyBool(n) == [t |-> "bool", n |-> n, s |-> <<>>]

PyStr(chars) == [t |-> "str", n |-> 0, s |-> chars]

PyNone == [t |-> "NoneType", n |-> 0, s |-> <<>>]

\* isinstance(x, str)
IsStr(x) == x.t = "str"

\* isinstance(x, (int, float)); bool is a subclass of int.
IsNumber(x) == x.t \in {"int", "float", "bool"}

\* float(x) for a number x.
ToFloat(x) == PyFloat(x.n)

\* Characters str.strip() removes.
Whitespace == {" ", "\t", "\n"}

RECURSIVE LStrip(_)
LStrip(s) == IF s = <<>> THEN s
             ELSE IF Head(s) \in Whitespace THEN LStrip(Tail(s)) ELSE s

RECURSIVE RStrip(_)
RStrip(s) == IF s = <<>> THEN s
             ELSE IF s[Len(s)] \in Whitespace
                  THEN RStrip(SubSeq(s, 1, Len(s) - 1)) ELSE s

\* str.strip()
Strip(s) == RStrip(LStrip(s))

\* `not isinstance(item, str) or not item.strip()`
BadItem(item) == ~IsStr(item) \/ Strip(item.s) = <<>>

\* ------------------------------------------------------------------- dict

DictKeys(d) == {d[i].k : i \in 1..Len(d)}

DictIndex(d, k) == CHOOSE i \in 1..Len(d) : d[i].k = k

\* d[k] for a key that is present
DictAt(d, k) == d[DictIndex(d, k)].v

\* d.get(k, default)
DictGet(d, k, default) == IF k \in DictKeys(d) THEN DictAt(d, k) ELSE default

\* d[k] = v : a present key keeps its position, a new key goes last.
DictSet(d, k, v) ==
    IF k \in DictKeys(d)
    THEN [d EXCEPT ![DictIndex(d, k)] = [k |-> k, v |-> v]]
    ELSE Append(d, [k |-> k, v |-> v])

\* del d[k]
DictDel(d, k) ==
    LET i == DictIndex(d, k)
    IN SubSeq(d, 1, i - 1) \o SubSeq(d, i + 1, Len(d))

\* ------------------------------------------------------------- exceptions

NoExc == [type |-> "", msg |-> "", item |-> PyNone,
          available |-> PyNone, requested |-> PyNone]

Raise(type, msg) == [NoExc EXCEPT !.type = type, !.msg = msg]

\* The logs argument: None, or a list.
NoLogs == [given |-> FALSE, list |-> <<>>]

LogsList(l) == [given |-> TRUE, list |-> l]

\* A call's outcome: the exception raised (NoExc: none), the value returned
\* (<<>>: None), the caller's logs list after the call, the message given to
\* logging.info, the lines printed, and the file written (<<>>: none).

NoResult == [exc |-> NoExc, ret |-> <<>>, logs |-> NoLogs, logged |-> "",
             out |-> <<>>, written |-> <<>>]

\* The call raised exc.
Raised(exc) == [NoResult EXCEPT !.exc = exc]

\* The call returned None after logging.info(logged).
Done(logged) == [NoResult EXCEPT !.logged = logged]

\* The call returned value.
Returned(value) == [NoResult EXCEPT !.ret = <<value>>]

\* What a call leaves behind: the inventory, the file inventory.json, the result.
Outcome(stock, file, result) == [stock |-> stock, disk |-> file, result |-> result]

\* ------------------------------------------------------ add_item, remove_item

\* f"{timestamp}: Added {qty} of {item}"; datetime.now() is not modelled.
LogEntry(qty, item) == [ts |-> "now", qty |-> qty, item |-> item.s]

\* add_item with `stock_data[item] = float(qty)`: the quantity replaces the stored one.
add_item_overwrite(stock, file, item, qty, logs) ==
    IF BadItem(item)
    THEN Outcome(stock, file,
           [Raised(Raise("ValueError", "Item must be a non-empty string."))
              EXCEPT !.logs = logs])
    ELSE IF ~IsNumber(qty) \/ qty.n < 0
    THEN Outcome(stock, file,
           [Raised(Raise("ValueError", "Quantity must be a non-negative number."))
              EXCEPT !.logs = logs])
    ELSE Outcome(DictSet(stock, item.s, ToFloat(qty)), file,
           [Done("Added %.2f of %s") EXCEPT
              !.logs = IF logs.given
                       THEN LogsList(Append(logs.list, LogEntry(qty, item)))
                       ELSE logs])

\* add_item with the sign of qty checked after the entry is stored and logged.
add_item_store_first(stock, file, item, qty, logs) ==
    IF BadItem(item)
    THEN Outcome(stock, file,
           [Raised(Raise("ValueError", "Item must be a non-empty string."))
              EXCEPT !.logs = logs])
    ELSE IF ~IsNumber(qty)
    THEN Outcome(stock, file,
           [Raised(Raise("ValueError", "Quantity must be a non-negative number."))
              EXCEPT !.logs = logs])
    ELSE LET sum == PyFloat(DictGet(stock, item.s, PyFloat(0)).n + ToFloat(qty).n)
             after == IF logs.given
                      THEN LogsList(Append(logs.list, LogEntry(qty, item)))
                      ELSE logs
         IN IF qty.n < 0
            THEN Outcome(DictSet(stock, item.s, sum), file,
                   [Raised(Raise("ValueError",
                                 "Quantity must be a non-negative number."))
                      EXCEPT !.logs = after])
            ELSE Outcome(DictSet(stock, item.s, sum), file,
                   [Done("Added %.2f of %s") EXCEPT !.logs = after])

add_item(stock, file, item, qty, logs) ==
    IF BadItem(item)
    THEN Outcome(stock, file,
           [Raised(Raise("ValueError", "Item must be a non-empty string."))
              EXCEPT !.logs = logs])
    ELSE IF ~IsNumber(qty) \/ qty.n < 0
    THEN Outcome(stock, file,
           [Raised(Raise("ValueError", "Quantity must be a non-negative number."))
              EXCEPT !.logs = logs])
    ELSE LET sum == PyFloat(DictGet(stock, item.s, PyFloat(0)).n + ToFloat(qty).n)
         IN Outcome(DictSet(stock, item.s, sum), file,
              [Done("Added %.2f of %s") EXCEPT
                 !.logs = IF logs.given
                          THEN LogsList(Append(logs.list, LogEntry(qty, item)))
                          ELSE logs])

\* remove_item without the `new_qty < 0` check.
remove_item_unchecked(stock, file, item, qty) ==
    IF BadItem(item)
    THEN Outcome(stock, file,
           Raised(Raise("ValueError", "Item must be a non-empty string.")))
    ELSE IF ~IsNumber(qty) \/ qty.n <= 0
    THEN Outcome(stock, file,
           Raised(Raise("ValueError", "Quantity must be a positive number.")))
    ELSE IF item.s \notin DictKeys(stock)
    THEN Outcome(stock, file,
           Raised([Raise("KeyError", "Item not found in inventory.")
                     EXCEPT !.item = item]))
    ELSE LET new_qty == PyFloat(DictAt(stock, item.s).n - ToFloat(qty).n)
         IN IF new_qty.n = 0
            THEN Outcome(DictDel(stock, item.s), file,
                   Done("Removed %.2f of %s (deleted at zero)."))
            ELSE Outcome(DictSet(stock, item.s, new_qty), file,
                   Done("Removed %.2f of %s (new qty: %.2f)."))

\* remove_item without the `new_qty == 0` branch: a zero entry stays.
remove_item_keeps_zero(stock, file, item, qty) ==
    IF BadItem(item)
    THEN Outcome(stock, file,
           Raised(Raise("ValueError", "Item must be a non-empty string.")))
    ELSE IF ~IsNumber(qty) \/ qty.n <= 0
    THEN Outcome(stock, file,
           Raised(Raise("ValueError", "Quantity must be a positive number.")))
    ELSE IF item.s \notin DictKeys(stock)
    THEN Outcome(stock, file,
           Raised([Raise("KeyError", "Item not found in inventory.")
                     EXCEPT !.item = item]))
    ELSE LET new_qty == PyFloat(DictAt(stock, item.s).n - ToFloat(qty).n)
         IN IF new_qty.n < 0
            THEN Outcome(stock, file,
                   Raised([Raise("ValueError", "Insufficient stock")
                             EXCEPT !.item = item,
                                    !.available = DictAt(stock, item.s),
                                    !.requested = qty]))
            ELSE Outcome(DictSet(stock, item.s, new_qty), file,
                   Done("Removed %.2f of %s (new qty: %.2f)."))

remove_item(stock, file, item, qty) ==
    IF BadItem(item)
    THEN Outcome(stock, file,
           Raised(Raise("ValueError", "Item must be a non-empty string.")))
    ELSE IF ~IsNumber(qty) \/ qty.n <= 0
    THEN Outcome(stock, file,
           Raised(Raise("ValueError", "Quantity must be a positive number.")))
    ELSE IF item.s \notin DictKeys(stock)
    THEN Outcome(stock, file,
           Raised([Raise("KeyError", "Item not found in inventory.")
                     EXCEPT !.item = item]))
    ELSE LET new_qty == PyFloat(DictAt(stock, item.s).n - ToFloat(qty).n)
         IN IF new_qty.n < 0
            THEN Outcome(stock, file,
                   Raised([Raise("ValueError", "Insufficient stock")
                             EXCEPT !.item = item,
                                    !.available = DictAt(stock, item.s),
                                    !.requested = qty]))
            ELSE IF new_qty.n = 0
            THEN Outcome(DictDel(stock, item.s), file,
                   Done("Removed %.2f of %s (deleted at zero)."))
            ELSE Outcome(DictSet(stock, item.s, new_qty), file,
                   Done("Removed %.2f of %s (new qty: %.2f)."))

\* ------------------------------------------------------------------ get_qty

\* get_qty with `stock_data.get(item, 0.0)`.
get_qty_default(stock, file, item) ==
    IF IsStr(item) /\ item.s \in DictKeys(stock)
    THEN Outcome(stock, file, Returned(ToFloat(DictAt(stock, item.s))))
    ELSE Outcome(stock, file, Returned(PyFloat(0)))

\* stock_data[item] raises KeyError(item) for any hashable item that is no key.
get_qty(stock, file, item) ==
    IF IsStr(item) /\ item.s \in DictKeys(stock)
    THEN Outcome(stock, file, Returned(ToFloat(DictAt(stock, item.s))))
    ELSE Outcome(stock, file,
           Raised([Raise("KeyError", "") EXCEPT !.item = item]))

\* ------------------------------------------------- print_data, check_low_items

\* f"{item} -> {qty}"
ReportLine(entry) == [text |-> "->", item |-> entry.k, qty |-> entry.v]

print_data(stock, file) ==
    Outcome(stock, file,
      [NoResult EXCEPT !.out =
         <<[text |-> "Items Report", item |-> <<>>, qty |-> PyNone]>>
         \o [i \in 1..Len(stock) |-> ReportLine(stock[i])]])

\* The comprehension with `qty <= threshold`.
RECURSIVE ItemsAtOrBelow(_, _)
ItemsAtOrBelow(d, threshold) ==
    IF d = <<>> THEN <<>>
    ELSE (IF Head(d).v.n <= threshold.n THEN <<Head(d).k>> ELSE <<>>)
         \o ItemsAtOrBelow(Tail(d), threshold)

\* [item for item, qty in d.items() if qty < threshold]
RECURSIVE ItemsBelow(_, _)
ItemsBelow(d, threshold) ==
    IF d = <<>> THEN <<>>
    ELSE (IF Head(d).v.n < threshold.n THEN <<Head(d).k>> ELSE <<>>)
         \o ItemsBelow(Tail(d), threshold)

check_low_items(stock, file, threshold) ==
    IF ~IsNumber(threshold) \/ threshold.n < 0
    THEN Outcome(stock, file,
           Raised(Raise("ValueError", "Threshold must be a non-negative number.")))
    ELSE Outcome(stock, file, Returned(ItemsBelow(stock, threshold)))

\* --------------------------------------------------------------------- JSON

\* A JSON value: j is its syntactic kind, n the number written.
JInt(n) == [j |-> "int", n |-> n]

JReal(n) == [j |-> "real", n |-> n]

JString == [j |-> "string", n |-> 0]

JLiteral(name) == [j |-> name, n |-> 0]

\* A file: absent, text that is no JSON, or a JSON document whose top-level value
\* is an object (its members in order), an array or a string.
File(kind, members) == [kind |-> kind, members |-> members]

NoFile == File("absent", <<>>)

\* json's encoding of a Python value: a float is written with a fraction
\* (8.0), an int without (8).
JsonEncode(x) ==
    CASE x.t = "float" -> JReal(x.n)
      [] x.t = "int" -> JInt(x.n)
      [] x.t = "bool" -> JLiteral(IF x.n = 1 THEN "true" ELSE "false")
      [] x.t = "str" -> JString
      [] OTHER -> JLiteral("null")

\* json's decoding of a JSON value.
JsonDecode(v) ==
    CASE v.j = "real" -> PyFloat(v.n)
      [] v.j = "int" -> PyInt(v.n)
      [] v.j = "true" -> PyBool(1)
      [] v.j = "false" -> PyBool(0)
      [] v.j = "string" -> PyStr(<<"x">>)
      [] OTHER -> PyNone

\* json.dump(d, file, indent=2, ensure_ascii=False): the object's members are d's
\* items in order.
json_dump(d) ==
    File("object", [i \in 1..Len(d) |-> [k |-> d[i].k, v |-> JsonEncode(d[i].v)]])

\* The dict json.load builds from an object's members: a repeated name keeps its
\* first position and its last value.
RECURSIVE ObjectToDict(_, _)
ObjectToDict(members, acc) ==
    IF members = <<>> THEN acc
    ELSE ObjectToDict(Tail(members),
                      DictSet(acc, Head(members).k, JsonDecode(Head(members).v)))

\* json.load(file): [exc, isdict, data].
json_load(content) ==
    CASE content.kind = "object" ->
           [exc |-> NoExc, isdict |-> TRUE,
            data |-> ObjectToDict(content.members, <<>>)]
      [] content.kind \in {"array", "string"} ->
           [exc |-> NoExc, isdict |-> FALSE, data |-> <<>>]
      [] OTHER ->
           [exc |-> Raise("ValueError", "JSONDecodeError"), isdict |-> FALSE,
            data |-> <<>>]

\* ------------------------------------------------------ save_data, load_data

DefaultPath == "inventory.json"

\* Another writable path.
OtherPath == "other.json"

\* A path in a directory that does not exist: open(path, "w") raises.
UnwritablePath == "no_such_dir/inventory.json"

\* save_data(file_path); file is what inventory.json holds.
save_data(stock, file, path) ==
    IF path = UnwritablePath
    THEN Outcome(stock, file, Raised(Raise("OSError", "FileNotFoundError")))
    ELSE Outcome(stock, IF path = DefaultPath THEN json_dump(stock) ELSE file,
           [Done("Saved %d items to %s") EXCEPT !.written = <<json_dump(stock)>>])

\* `isinstance(key, str)`: json.load yields str keys only.
IsStrKey(key) == \A i \in 1..Len(key) : key[i] \in STRING

\* The loop of load_data over data.items() from entry i on: stock_data was
\* cleared before the loop and is filled entry by entry; an entry that fails the
\* check raises with what was stored so far.
RECURSIVE LoadLoop(_, _, _, _)
LoadLoop(data, i, stock, file) ==
    IF i > Len(data)
    THEN Outcome(stock, file, Done("Loaded %d items from %s"))
    ELSE IF ~IsStrKey(data[i].k) \/ ~IsNumber(data[i].v)
    THEN Outcome(stock, file,
           Raised(Raise("ValueError",
                        "Inventory must map strings to numeric values.")))
    ELSE LoadLoop(data, i + 1, DictSet(stock, data[i].k, ToFloat(data[i].v)), file)

\* load_data without `stock_data.clear()`.
load_data_no_clear(stock, file, content) ==
    IF content.kind = "absent"
    THEN Outcome(stock, file, Raised(Raise("OSError", "FileNotFoundError")))
    ELSE LET parsed == json_load(content)
         IN IF parsed.exc # NoExc
            THEN Outcome(stock, file, Raised(parsed.exc))
            ELSE IF ~parsed.isdict
            THEN Outcome(stock, file,
                   Raised(Raise("ValueError",
                                "Inventory file must contain a JSON object.")))
            ELSE LoadLoop(parsed.data, 1, stock, file)

\* load_data(file_path), content being what the file at file_path holds.
load_data(stock, file, content) ==
    IF content.kind = "absent"
    THEN Outcome(stock, file, Raised(Raise("OSError", "FileNotFoundError")))
    ELSE LET parsed == json_load(content)
         IN IF parsed.exc # NoExc
            THEN Outcome(stock, file, Raised(parsed.exc))
            ELSE IF ~parsed.isdict
            THEN Outcome(stock, file,
                   Raised(Raise("ValueError",
                                "Inventory file must contain a JSON object.")))
            ELSE LoadLoop(parsed.data, 1, <<>>, file)

\* -------------------------------------------------------------------- state

VARIABLES
    stock_data,  \* the module-global dict, as a sequence of [k, v] entries
    disk,        \* what the file inventory.json holds
    pc,          \* "idle": the importing caller is between calls; "returned": a
                 \* call has returned and its result is at hand; "main": main()
                 \* is running; "exit": main() has ended
    line,        \* the statement of main() to run next (1..8), else 0
    logs,        \* main()'s local list logs
    call,        \* the last call made: the function and its arguments
    result,      \* what that call raised, returned, appended, logged, printed, wrote
    prev,        \* stock_data as it was when that call was made
    saved        \* stock_data as it was when save_data last wrote inventory.json

vars == <<stock_data, disk, pc, line, logs, call, result, prev, saved>>

NoCall == [op |-> "", item |-> PyNone, qty |-> PyNone, threshold |-> PyNone,
           logs |-> NoLogs, path |-> "", content |-> NoFile]

\* The function c.op applied to its arguments in the state (stock, file).
Exec(c, stock, file) ==
    CASE c.op = "add_item" -> add_item(stock, file, c.item, c.qty, c.logs)
      [] c.op = "remove_item" -> remove_item(stock, file, c.item, c.qty)
      [] c.op = "get_qty" -> get_qty(stock, file, c.item)
      [] c.op = "check_low_items" -> check_low_items(stock, file, c.threshold)
      [] c.op = "save_data" -> save_data(stock, file, c.path)
      [] c.op = "load_data" -> load_data(stock, file, c.content)
      [] c.op = "print_data" -> print_data(stock, file)

\* ------------------------------------------------------------------- inputs

Apple == <<"a", "p", "p", "l", "e">>

Banana == <<"b", "a", "n", "a", "n", "a">>

Names == {PyStr(Apple), PyStr(Banana)}

\* Item arguments: the names, the empty string, a blank string, and None.
ItemArgs == Names \cup {PyStr(<<>>), PyStr(<<" ", "\t">>), PyNone}

\* Quantities within the bound.
Amounts == {PyInt(n) : n \in 0..MaxQty}

\* Quantity arguments: ints, a float, True, a str and None.
QtyArgs == Amounts \cup {PyInt(-1), PyFloat(1), PyBool(1), PyStr(<<"1">>), PyNone}

\* Threshold arguments, the default among them.
ThresholdArgs == {PyInt(n) : n \in -1..(MaxQty + 1)}
                 \cup {PyInt(DefaultThreshold), PyFloat(1), PyStr(<<"5">>)}

\* logs arguments: None, an empty list, a list that already holds an entry.
LogsArgs == {NoLogs, LogsList(<<>>), LogsList(<<LogEntry(PyInt(1), PyStr(Apple))>>)}

JsonValues == {JInt(-1), JInt(0), JReal(1), JString, JLiteral("true")}

\* Members of external objects: a name with any of the values, and the empty
\* name, which json accepts as a key, with a quantity.
JsonMembers == [k : {Apple, Banana}, v : JsonValues] \cup {[k |-> <<>>, v |-> JReal(1)]}

\* Files that are no JSON object: none, text that is no JSON, an array, a string.
NonObjects ==
    {NoFile, File("malformed", <<>>), File("array", <<>>), File("string", <<>>)}

\* Files the environment provides: those, and every object of at most
\* MaxMembers members.
ExternalFiles ==
    NonObjects
    \cup {File("object", m) : m \in UNION {[1..n -> JsonMembers] : n \in 0..MaxMembers}}

InBounds(stock) == \A i \in 1..Len(stock) : stock[i].v.n <= MaxQty

\* --------------------------------------------------------------------- steps

Init ==
    /\ stock_data = <<>>
    /\ disk = NoFile
    /\ pc = "idle"
    /\ line = 0
    /\ logs = <<>>
    /\ call = NoCall
    /\ result = NoResult
    /\ prev = <<>>
    /\ saved = <<>>

\* The inventory save_data(c.path) leaves in inventory.json, if it writes it.
Saving(c, out) ==
    IF c.op = "save_data" /\ c.path = DefaultPath /\ out.result.exc = NoExc
    THEN out.stock ELSE saved

\* The caller makes call c and has its result. Calls that would store a quantity
\* above MaxQty are not explored.
Do(c) ==
    /\ \E out \in {Exec(c, stock_data, disk)} :
          /\ InBounds(out.stock)
          /\ stock_data' = out.stock
          /\ disk' = out.disk
          /\ result' = out.result
          /\ saved' = Saving(c, out)
    /\ call' = c
    /\ prev' = stock_data
    /\ pc' = "returned"
    /\ UNCHANGED <<line, logs>>

AddItemOf(items, qtys, lists) ==
    /\ pc = "idle"
    /\ \E item \in items, qty \in qtys, l \in lists :
          Do([NoCall EXCEPT !.op = "add_item", !.item = item, !.qty = qty,
                            !.logs = l])

RemoveItemOf(items, qtys) ==
    /\ pc = "idle"
    /\ \E item \in items, qty \in qtys :
          Do([NoCall EXCEPT !.op = "remove_item", !.item = item, !.qty = qty])

SaveDataOf(paths) ==
    /\ pc = "idle"
    /\ \E path \in paths : Do([NoCall EXCEPT !.op = "save_data", !.path = path])

\* load_data(path), the file at path holding content.
LoadDataOf(path, contents) ==
    /\ pc = "idle"
    /\ \E content \in contents :
          Do([NoCall EXCEPT !.op = "load_data", !.path = path,
                            !.content = content])

AddItem == AddItemOf(ItemArgs, QtyArgs, LogsArgs)

RemoveItem == RemoveItemOf(ItemArgs, QtyArgs)

GetQty ==
    /\ pc = "idle"
    /\ \E item \in ItemArgs : Do([NoCall EXCEPT !.op = "get_qty", !.item = item])

CheckLowItems ==
    /\ pc = "idle"
    /\ \E threshold \in ThresholdArgs :
          Do([NoCall EXCEPT !.op = "check_low_items", !.threshold = threshold])

PrintData ==
    /\ pc = "idle"
    /\ Do([NoCall EXCEPT !.op = "print_data"])

\* save_data to a file other than inventory.json, or to no writable place.
SaveElsewhere == SaveDataOf({OtherPath, UnwritablePath})

\* load_data of a file other than inventory.json.
LoadExternal == LoadDataOf(OtherPath, ExternalFiles)

\* The caller goes on to its next call.
Return ==
    /\ pc = "returned"
    /\ pc' = "idle"
    /\ call' = NoCall
    /\ result' = NoResult
    /\ prev' = <<>>
    /\ UNCHANGED <<stock_data, disk, line, logs, saved>>

\* --------------------------------------------------------------------- main

\* The calls of main(), in order; l is main's list logs, file what inventory.json
\* holds.
MainCalls(l, file) ==
    << [NoCall EXCEPT !.op = "add_item", !.item = PyStr(Apple), !.qty = PyInt(10),
                      !.logs = LogsList(l)],
       [NoCall EXCEPT !.op = "add_item", !.item = PyStr(Banana), !.qty = PyInt(3),
                      !.logs = LogsList(l)],
       [NoCall EXCEPT !.op = "remove_item", !.item = PyStr(Apple), !.qty = PyInt(2)],
       [NoCall EXCEPT !.op = "get_qty", !.item = PyStr(Apple)],
       [NoCall EXCEPT !.op = "check_low_items",
                      !.threshold = PyInt(DefaultThreshold)],
       [NoCall EXCEPT !.op = "save_data", !.path = DefaultPath],
       [NoCall EXCEPT !.op = "load_data", !.path = DefaultPath, !.content = file],
       [NoCall EXCEPT !.op = "print_data"] >>

\* The script is run: a new process, stock_data empty, logs = [].
MainStart ==
    /\ pc = "idle"
    /\ stock_data = <<>>
    /\ pc' = "main"
    /\ line' = 1
    /\ logs' = <<>>
    /\ UNCHANGED <<stock_data, disk, call, result, prev, saved>>

\* One statement of main(); an exception ends the process.
MainStep ==
    /\ pc = "main"
    /\ call' = MainCalls(logs, disk)[line]
    /\ prev' = stock_data
    /\ \E out \in {Exec(MainCalls(logs, disk)[line], stock_data, disk)} :
          /\ stock_data' = out.stock
          /\ disk' = out.disk
          /\ result' = out.result
          /\ saved' = Saving(MainCalls(logs, disk)[line], out)
          /\ logs' = IF out.result.logs.given THEN out.result.logs.list ELSE logs
          /\ IF out.result.exc # NoExc \/ line = Len(MainCalls(logs, disk))
             THEN pc' = "exit" /\ line' = 0
             ELSE pc' = "main" /\ line' = line + 1

\* The inventory functions under every kind of argument; files other than
\* inventory.json are read and written.
Next ==
    \/ AddItem
    \/ RemoveItem
    \/ GetQty
    \/ CheckLowItems
    \/ PrintData
    \/ SaveElsewhere
    \/ LoadExternal
    \/ Return
    \/ MainStart
    \/ MainStep

Spec == Init /\ [][Next]_vars

\* ------------------------------------------------- persistence in inventory.json

\* Stock is added and taken with valid arguments.
Stock == AddItemOf(Names, Amounts, {NoLogs})

Take == RemoveItemOf(Names, Amounts)

\* save_data() with the default path, or to no writable place.
SaveData == SaveDataOf({DefaultPath, UnwritablePath})

\* load_data() with the default path.
LoadData == LoadDataOf(DefaultPath, {disk})

\* Another file is loaded: one that is no JSON object, or an object of one member.
LoadForeign ==
    LoadDataOf(OtherPath,
               NonObjects \cup {File("object", <<m>>) : m \in JsonMembers})

NextFiles ==
    \/ Stock
    \/ Take
    \/ SaveData
    \/ LoadData
    \/ LoadForeign
    \/ Return
    \/ MainStart
    \/ MainStep

SpecFiles == Init /\ [][NextFiles]_vars

\* ------------------------------------------------------------------- claims

\* The call just made, its arguments and the inventory it found.
Called(op) == call.op = op

ValidItem == ~BadItem(call.item)

Present == IsStr(call.item) /\ call.item.s \in DictKeys(prev)

\* The quantity stored for the call's item when the call was made.
Stored == DictAt(prev, call.item.s).n

\* The exception types the code raises for an invalid argument and for an absent item.
InvalidArgumentType ==
    remove_item(<<>>, NoFile, PyStr(<<>>), PyInt(1)).result.exc.type

NotFoundType ==
    remove_item(<<>>, NoFile, PyStr(Apple), PyInt(1)).result.exc.type

ValidationMessages ==
    {"Item must be a non-empty string.", "Quantity must be a non-negative number.",
     "Quantity must be a positive number.", "Threshold must be a non-negative number."}

\* Two dicts hold the same keys with the same numbers.
SameMapping(a, b) ==
    /\ DictKeys(a) = DictKeys(b)
    /\ \A k \in DictKeys(a) : DictAt(a, k).n = DictAt(b, k).n

\* Every entry but key's is in both dicts, with the same value.
OthersUnchanged(before, after, key) ==
    \A k \in (DictKeys(before) \cup DictKeys(after)) \ {key} :
       /\ k \in DictKeys(before)
       /\ k \in DictKeys(after)
       /\ DictAt(before, k) = DictAt(after, k)

\* C1: every item in the inventory has a stored quantity strictly greater than
\* zero, in every state reachable by add, remove and load calls.
C1_QuantitiesPositive ==
    \A i \in 1..Len(stock_data) : stock_data[i].v.n > 0

\* C2: whenever load fails, the inventory after the call is the inventory before
\* the call.
C2_FailedLoadKeepsInventory ==
    (Called("load_data") /\ result.exc # NoExc) => stock_data = prev

\* C3: save leaves the inventory unchanged, and loading the file it wrote, into
\* an empty store or any other, yields a mapping with the same keys and the same
\* quantity for each key. The first conjunct is every successful save, the file
\* loaded into an empty store; the second is every later load_data() of
\* inventory.json, into whatever the store then holds; the third is main()'s
\* save_data() followed by load_data().
C3_RoundTrip ==
    /\ (Called("save_data") /\ result.exc = NoExc) =>
          /\ stock_data = prev
          /\ load_data(<<>>, disk, result.written[1]).result.exc = NoExc
          /\ SameMapping(load_data(<<>>, disk, result.written[1]).stock, prev)
    /\ (Called("load_data") /\ call.path = DefaultPath /\ disk # NoFile) =>
          /\ result.exc = NoExc
          /\ SameMapping(stock_data, saved)
    /\ (Called("load_data") /\ pc \in {"main", "exit"}) =>
          /\ result.exc = NoExc
          /\ SameMapping(stock_data, prev)

\* C3's case: load_data() has replaced an inventory that differed from the saved
\* one of two items.
C3_Witness ==
    /\ Called("load_data")
    /\ call.path = DefaultPath
    /\ result.exc = NoExc
    /\ Len(stock_data) = 2
    /\ ~SameMapping(prev, stock_data)

\* remove(item, qty) with a valid item that is present and a valid qty greater
\* than the stored quantity.
C4_Case ==
    /\ Called("remove_item")
    /\ ValidItem
    /\ Present
    /\ IsNumber(call.qty)
    /\ call.qty.n > 0
    /\ call.qty.n > Stored

\* C4 as stated: such a remove fails with an error kind distinct from
\* InvalidArgument and NotFound that reports the available and the requested
\* amount, and leaves the inventory unchanged.
C4_DistinctErrorKind ==
    (C4_Case /\ Stored > 0) =>
       /\ result.exc.type \notin {"", InvalidArgumentType, NotFoundType}
       /\ result.exc.available = DictAt(prev, call.item.s)
       /\ result.exc.requested = call.qty
       /\ stock_data = prev

\* C4 as amended: such a remove raises ValueError, the type raised for an invalid
\* argument too and not the KeyError of an absent item, with a message of its
\* own that reports the item, the available and the requested amount; the
\* inventory is unchanged.
C4_InsufficientStock ==
    C4_Case =>
       /\ result.exc.type = "ValueError"
       /\ result.exc.type = InvalidArgumentType
       /\ result.exc.type # NotFoundType
       /\ result.exc.msg = "Insufficient stock"
       /\ result.exc.msg \notin ValidationMessages
       /\ result.exc.item = call.item
       /\ result.exc.available = DictAt(prev, call.item.s)
       /\ result.exc.requested = call.qty
       /\ stock_data = prev

\* C4's case: more than the stored quantity was asked of one of two items.
C4_Witness == C4_Case /\ Len(prev) = 2 /\ Stored > 0

\* remove(item, qty) with 0 < qty <= the stored quantity of a valid item.
C5_Case ==
    /\ Called("remove_item")
    /\ ValidItem
    /\ Present
    /\ IsNumber(call.qty)
    /\ 0 < call.qty.n
    /\ call.qty.n <= Stored

C6_Case ==
    /\ Called("add_item")
    /\ ValidItem
    /\ IsNumber(call.qty)
    /\ call.qty.n >= 0

\* C6: such an add succeeds, getQuantity then returns the quantity stored before
\* (0 for an absent item) plus qty, and the other items' entries are unchanged.
C6_AddIncrements ==
    C6_Case =>
       /\ result.exc = NoExc
       /\ get_qty(stock_data, disk, call.item).result
             = Returned(PyFloat((IF Present THEN Stored ELSE 0) + call.qty.n))
       /\ OthersUnchanged(prev, stock_data, call.item.s)

\* C6's case: a positive quantity was added to a present item, another being there.
C6_Witness ==
    C6_Case /\ Present /\ Stored > 0 /\ call.qty.n > 0 /\ Len(prev) = 2

\* C7: remove with a valid item name and qty > 0, and getQuantity, fail with
\* NotFound when the item is absent, and leave the inventory unchanged.
C7_AbsentItemNotFound ==
    /\ (Called("remove_item") /\ ValidItem /\ IsNumber(call.qty)
          /\ call.qty.n > 0 /\ ~Present) =>
          /\ result.exc.type = "KeyError"
          /\ result.exc.item = call.item
          /\ stock_data = prev
    /\ (Called("get_qty") /\ ~Present) =>
          /\ result.exc.type = "KeyError"
          /\ result.ret = <<>>
          /\ stock_data = prev

\* C7's case: getQuantity of an item absent from a non-empty inventory.
C7_Witness ==
    Called("get_qty") /\ ValidItem /\ ~Present /\ prev # <<>>
       /\ result.exc.type = "KeyError"

\* checkLowItems(threshold) with a numeric threshold >= 0.
C8_Case ==
    /\ Called("check_low_items")
    /\ IsNumber(call.threshold)
    /\ call.threshold.n >= 0

\* C8: such a call returns exactly the items whose quantity is strictly below
\* the threshold, each once, in the inventory's order, and leaves the inventory
\* unchanged; in main(), after add(apple, 10), add(banana, 3), remove(apple, 2),
\* it returns [banana].
C8_LowItems ==
    /\ C8_Case =>
          /\ result.exc = NoExc
          /\ Len(result.ret) = 1
          /\ \A i \in 1..Len(result.ret[1]) :
                /\ result.ret[1][i] \in DictKeys(stock_data)
                /\ DictAt(stock_data, result.ret[1][i]).n < call.threshold.n
          /\ \A k \in DictKeys(stock_data) :
                DictAt(stock_data, k).n < call.threshold.n =>
                   \E i \in 1..Len(result.ret[1]) : result.ret[1][i] = k
          /\ \A i, j \in 1..Len(result.ret[1]) :
                i < j => DictIndex(stock_data, result.ret[1][i])
                            < DictIndex(stock_data, result.ret[1][j])
          /\ stock_data = prev
    /\ (Called("check_low_items") /\ pc = "main") =>
          /\ prev = <<[k |-> Apple, v |-> PyFloat(8)], [k |-> Banana, v |-> PyFloat(3)]>>
          /\ call.threshold = PyInt(5)
          /\ result.ret = << <<Banana>> >>

\* C8's case: an item below the threshold was returned and one at the threshold
\* was not.
C8_Witness ==
    /\ C8_Case
    /\ Len(result.ret[1]) = 1
    /\ \E i \in 1..Len(stock_data) : stock_data[i].v.n = call.threshold.n

\* An add, a remove or a checkLowItems with an invalid argument.
C9_Case ==
    \/ Called("add_item")
          /\ (BadItem(call.item) \/ ~IsNumber(call.qty) \/ call.qty.n < 0)
    \/ Called("remove_item")
          /\ (BadItem(call.item) \/ ~IsNumber(call.qty) \/ call.qty.n <= 0)
    \/ Called("check_low_items")
          /\ IsNumber(call.threshold) /\ call.threshold.n < 0

\* C9: such a call fails with InvalidArgument, and the inventory and the
\* caller's log list are as they were before the call.
C9_ValidateThenMutate ==
    C9_Case =>
       /\ result.exc.type = "ValueError"
       /\ result.exc.msg \in ValidationMessages
       /\ stock_data = prev
       /\ result.logs = call.logs

\* C9's case: an add of a negative quantity, with a log list, to an item in stock.
C9_Witness ==
    /\ Called("add_item")
    /\ ValidItem
    /\ Present
    /\ IsNumber(call.qty)
    /\ call.qty.n < 0
    /\ call.logs.given

\* C10: checkLowItems(0) returns the empty sequence in every state reachable by
\* add, remove and load calls.
C10_NothingBelowZero ==
    (Called("check_low_items") /\ IsNumber(call.threshold)
       /\ call.threshold.n = 0) =>
       /\ result.exc = NoExc
       /\ result.ret = << <<>> >>

====
